---------------------------- MODULE Spec2Model ----------------------------
(***************************************************************************)
(* Model of the ATF context-menu extension (src/src/extension.ts).         *)
(*                                                                         *)
(* A JavaScript string is a sequence of one-character strings.  Regular    *)
(* expressions of the source are operators that compute what the regular   *)
(* expression computes on such a sequence.                                 *)
(***************************************************************************)
EXTENDS Integers, Sequences, FiniteSets, TLC

VARIABLES
    pc,         \* position of the command handler: idle, awaitWrite, done, rejected
    editor,     \* vscode.window.activeTextEditor as seen by the running handler
    frame,      \* what the suspended handler does once its awaited write resolves
    clipboard,  \* content of vscode.env.clipboard
    log,        \* host calls made so far, in order
    call,       \* a direct call of one function of the pipeline: name and arguments
    ret         \* <<>> while the call has not returned, <<value>> once it has

vars == <<pc, editor, frame, clipboard, log, call, ret>>

hostVars == <<pc, editor, frame, clipboard, log>>

----------------------------------------------------------------------------
(* Characters and character classes of the regular expressions.            *)

LowerLetters == <<"a", "b", "c", "d", "e", "f", "g", "h", "i", "j", "k", "l", "m", "n", "o", "p", "q", "r", "s", "t", "u", "v", "w", "x", "y", "z">>

UpperLetters == <<"A", "B", "C", "D", "E", "F", "G", "H", "I", "J", "K", "L", "M", "N", "O", "P", "Q", "R", "S", "T", "U", "V", "W", "X", "Y", "Z">>

Digits == <<"0", "1", "2", "3", "4", "5", "6", "7", "8", "9">>

Range(s) == {s[i] : i \in DOMAIN s}

\* U+2028 LINE SEPARATOR, one character: a line terminator of ECMAScript
\* that an editor keeps inside a line of the document.
LS == "LS"

\* The line terminators of ECMAScript that occur in the modelled inputs:
\* "." does not match them, \s and trim() do.
LineTerminators == {"\n", "\r", LS}

\* \s and the characters String.prototype.trim removes.
WhiteSpace == {" ", "\t"} \cup LineTerminators

\* [a-zA-Z0-9]
AlphaNumeric == Range(LowerLetters) \cup Range(UpperLetters) \cup Range(Digits)

\* \w, the class \b is defined by.
WordChars == AlphaNumeric \cup {"_"}

\* Case folding of the i flag on the ASCII letters.
ToLower(c) ==
    IF \E i \in DOMAIN UpperLetters : UpperLetters[i] = c
    THEN LowerLetters[CHOOSE i \in DOMAIN UpperLetters : UpperLetters[i] = c]
    ELSE c

Quote == "\""

Backslash == "\\"

----------------------------------------------------------------------------
(* String primitives.                                                      *)

RECURSIVE TrimStart(_)
TrimStart(s) ==
    IF s # <<>> /\ Head(s) \in WhiteSpace THEN TrimStart(Tail(s)) ELSE s

RECURSIVE TrimEnd(_)
TrimEnd(s) ==
    IF s # <<>> /\ s[Len(s)] \in WhiteSpace
    THEN TrimEnd(SubSeq(s, 1, Len(s) - 1))
    ELSE s

\* String.prototype.trim
Trim(s) == TrimEnd(TrimStart(s))

\* s.slice(from, to) with 0-based from (inclusive) and to (exclusive).
Slice(s, from, to) == SubSeq(s, from + 1, to)

\* s.replace(/c/g, rep) for a single character c.
RECURSIVE ReplaceChar(_, _, _)
ReplaceChar(s, c, rep) ==
    IF s = <<>> THEN <<>>
    ELSE (IF Head(s) = c THEN rep ELSE <<Head(s)>>) \o ReplaceChar(Tail(s), c, rep)

\* \b at 0-based position p of s: exactly one of the characters around p is \w.
IsWordAt(s, i) == i >= 1 /\ i <= Len(s) /\ s[i] \in WordChars

\* The regular expression without its \b.
WordBoundary_Missing(s, p) == TRUE

WordBoundary(s, p) == IsWordAt(s, p) # IsWordAt(s, p + 1)

\* ^word under the i flag: the length matched, or -1.
MatchWord(s, word) ==
    IF /\ Len(s) >= Len(word)
       /\ \A i \in DOMAIN word : ToLower(s[i]) = ToLower(word[i])
    THEN Len(word)
    ELSE -1

\* /^(w1|w2|...)\b/i: the alternatives are tried in order; a match is the
\* alternative's word and its length, no match is <<>>.
RECURSIVE MatchLeadingWord(_, _)
MatchLeadingWord(s, alternatives) ==
    IF alternatives = <<>> THEN <<>>
    ELSE LET n == MatchWord(s, Head(alternatives))
         IN IF n >= 0 /\ WordBoundary(s, n)
            THEN <<Head(alternatives)>>
            ELSE MatchLeadingWord(s, Tail(alternatives))

Conjunctions == << <<"a", "n", "d">>, <<"o", "r">> >>

Keywords == << <<"g", "i", "v", "e", "n">>, <<"w", "h", "e", "n">>, <<"t", "h", "e", "n">> >>

\* The first index >= from at which s holds c, or 0.
RECURSIVE IndexOf(_, _, _)
IndexOf(s, c, from) ==
    IF from > Len(s) THEN 0
    ELSE IF s[from] = c THEN from
    ELSE IndexOf(s, c, from + 1)

\* The matches of the global regular expression /"[^"]*"/g on s, left to
\* right: each match is <<first, last>>, the 1-based places of its quotes.
RECURSIVE QuotedRegionsFrom(_, _)
QuotedRegionsFrom(s, from) ==
    LET open == IndexOf(s, Quote, from)
        close == IF open = 0 THEN 0 ELSE IndexOf(s, Quote, open + 1)
    IN IF close = 0 THEN <<>>
       ELSE << <<open, close>> >> \o QuotedRegionsFrom(s, close + 1)

QuotedRegions(s) == QuotedRegionsFrom(s, 1)

\* s.replace(/"[^"]*"/g, rep)
RECURSIVE ReplaceRegionsFrom(_, _, _, _)
ReplaceRegionsFrom(s, regions, from, rep) ==
    IF regions = <<>> THEN SubSeq(s, from, Len(s))
    ELSE SubSeq(s, from, Head(regions)[1] - 1) \o rep
            \o ReplaceRegionsFrom(s, Tail(regions), Head(regions)[2] + 1, rep)

ReplaceQuoted(s, rep) == ReplaceRegionsFrom(s, QuotedRegions(s), 1, rep)

----------------------------------------------------------------------------
(* The messages of the extension.                                          *)

NoActiveEditor == <<"N", "o", " ", "a", "c", "t", "i", "v", "e", " ", "e", "d", "i", "t", "o", "r", ".">>

SelectionError == <<"S", "e", "l", "e", "c", "t", "i", "o", "n", " ", "m", "u", "s", "t", " ", "b", "e", " ", "w", "i", "t", "h", "i", "n", " ", "a", " ", "s", "i", "n", "g", "l", "e", " ", "l", "i", "n", "e", ".">>

EmptyLine == <<"L", "i", "n", "e", " ", "i", "s", " ", "e", "m", "p", "t", "y", "/", "w", "h", "i", "t", "e", "s", "p", "a", "c", "e", ".">>

WrongConjunction == <<"P", "l", "e", "a", "s", "e", " ", "u", "s", "e", " ", "G", "i", "v", "e", "n", ",", " ", "W", "h", "e", "n", " ", "o", "r", " ", "T", "h", "e", "n">>

MissingKeyword == <<"L", "i", "n", "e", " ", "m", "u", "s", "t", " ", "s", "t", "a", "r", "t", " ", "w", "i", "t", "h", " ", "t", "h", "e", " ", "w", "o", "r", "d", " ", "\"", "G", "i", "v", "e", "n", "\"", ",", " ", "\"", "W", "h", "e", "n", "\"", " ", "o", "r", " ", "\"", "T", "h", "e", "n", "\"", ".">>

CopiedMessage == <<"C", "o", "p", "i", "e", "d", " ", "A", "T", "F", " ", "b", "i", "n", "d", "i", "n", "g", " ", "+", " ", "C", "#", " ", "m", "e", "t", "h", "o", "d", " ", "t", "o", " ", "c", "l", "i", "p", "b", "o", "a", "r", "d", ".">>

----------------------------------------------------------------------------
(* The pipeline: validation, keyword parsing, parameter extraction, name    *)
(* derivation, pattern generation, literal reconstruction, assembly.        *)

\* The validator returning its argument instead of the trimmed line.
validateStepLine_ReturnsRaw(rawLine) ==
    LET line == Trim(rawLine)
    IN IF line = <<>> THEN [ok |-> FALSE, error |-> EmptyLine]
       ELSE IF MatchLeadingWord(line, Conjunctions) # <<>>
            THEN [ok |-> FALSE, error |-> WrongConjunction]
       ELSE IF MatchLeadingWord(line, Keywords) = <<>>
            THEN [ok |-> FALSE, error |-> MissingKeyword]
       ELSE [ok |-> TRUE, line |-> rawLine]

validateStepLine(rawLine) ==
    LET line == Trim(rawLine)
    IN IF line = <<>> THEN [ok |-> FALSE, error |-> EmptyLine]
       ELSE IF MatchLeadingWord(line, Conjunctions) # <<>>
            THEN [ok |-> FALSE, error |-> WrongConjunction]
       ELSE IF MatchLeadingWord(line, Keywords) = <<>>
            THEN [ok |-> FALSE, error |-> MissingKeyword]
       ELSE [ok |-> TRUE, line |-> line]

\* The last place of the run of \s that starts after place k of s.
RECURSIVE WhiteSpaceRunEnd(_, _)
WhiteSpaceRunEnd(s, k) ==
    IF k < Len(s) /\ s[k + 1] \in WhiteSpace THEN WhiteSpaceRunEnd(s, k + 1) ELSE k

\* (.*)$ from place j + 1 of s: "." matches no line terminator.
DotStarToEnd(s, j) == \A i \in (j + 1)..Len(s) : s[i] \notin LineTerminators

\* /^(given|when|then)\b\s*(.*)$/i.exec(s): <<match[1], match[2]>>, or <<>>
\* for null.  \s* is greedy and gives back one character at a time.
KeywordMatch(s) ==
    LET word == MatchLeadingWord(s, Keywords)
    IN IF word = <<>> THEN <<>>
       ELSE LET k == Len(word[1])
                ends == {j \in k..WhiteSpaceRunEnd(s, k) : DotStarToEnd(s, j)}
            IN IF ends = {} THEN <<>>
               ELSE LET j == CHOOSE e \in ends : \A f \in ends : f <= e
                    IN <<SubSeq(s, 1, k), SubSeq(s, j + 1, Len(s))>>

ToLowerCase(s) == [i \in DOMAIN s |-> ToLower(s[i])]

Given == <<"G", "i", "v", "e", "n">>

When == <<"W", "h", "e", "n">>

Then == <<"T", "h", "e", "n">>

parseStepKeyword(stepLine) ==
    LET match == KeywordMatch(Trim(stepLine))
    IN IF match = <<>> THEN [ok |-> FALSE, error |-> MissingKeyword]
       ELSE LET keywordRaw == ToLowerCase(match[1])
                keyword == IF keywordRaw = Keywords[1] THEN Given
                           ELSE IF keywordRaw = Keywords[2] THEN When
                           ELSE Then
            IN [ok |-> TRUE, keyword |-> keyword, remainder |-> Trim(match[2])]

\* replace(/[^a-zA-Z0-9\s]/g, ' ')
RemovePunctuation(s) ==
    [i \in DOMAIN s |-> IF s[i] \in AlphaNumeric \cup WhiteSpace THEN s[i] ELSE " "]

\* replace(/\s+/g, '')
RemoveWhiteSpace(s) == SelectSeq(s, LAMBDA c : c \notin WhiteSpace)

toCSharpMethodName(stepLine) ==
    LET withoutQuotedText == ReplaceQuoted(stepLine, <<" ">>)
        withoutPunctuation == RemovePunctuation(withoutQuotedText)
    IN RemoveWhiteSpace(withoutPunctuation)

escapeForCSharpStringLiteral(value) ==
    ReplaceChar(ReplaceChar(value, Backslash, <<Backslash, Backslash>>),
                Quote, <<Backslash, Quote>>)

\* The interpolated escaping without the doubling of braces.
escapeInterpolated_BracesKept(value) == escapeForCSharpStringLiteral(value)

escapeForCSharpInterpolatedStringLiteralText(value) ==
    ReplaceChar(
        ReplaceChar(
            ReplaceChar(
                ReplaceChar(value, Backslash, <<Backslash, Backslash>>),
                Quote, <<Backslash, Quote>>),
            "{", <<"{", "{">>),
        "}", <<"}", "}">>)

getQuotedStringLiterals(stepLine) ==
    LET regions == QuotedRegions(stepLine)
    IN [i \in DOMAIN regions |->
            SubSeq(stepLine, regions[i][1] + 1, regions[i][2] - 1)]

CaptureToken == <<"\"", "\"", "(", "[", "^", "\"", "\"", "]", "*", ")", "\"", "\"">>

generateAtfBindingAttribute(keyword, remainder) ==
    LET pattern == ReplaceQuoted(remainder, CaptureToken)
    IN <<"[">> \o keyword \o <<"(", "@", Quote>> \o pattern \o <<Quote, ")", "]">>

\* String(n) for n >= 0.
RECURSIVE Decimal(_)
Decimal(n) ==
    IF n < 10 THEN <<Digits[n + 1]>>
    ELSE Decimal(n \div 10) \o <<Digits[(n % 10) + 1]>>

\* The name with its suffix appended even when the suffix is 0.
ParameterName_AlwaysSuffix(i) ==
    <<LowerLetters[(i % 26) + 1]>> \o Decimal(i \div 26)

\* The name pushed by iteration i of the loop of getParameterNames.
ParameterName(i) ==
    LET letterIndex == i % 26
        suffix == i \div 26
    IN <<LowerLetters[letterIndex + 1]>> \o (IF suffix > 0 THEN Decimal(suffix) ELSE <<>>)

getParameterNames(count) == [i \in 1..count |-> ParameterName(i - 1)]

PlainOpen == <<"s", "t", "r", "i", "n", "g", " ", "p", "r", "o", "c", " ", "=", " ", "\"">>

InterpolatedOpen == <<"s", "t", "r", "i", "n", "g", " ", "p", "r", "o", "c", " ", "=", " ", "$", "\"">>

LiteralClose == <<"\"", ";">>

\* parameterNames[paramIndex] ?? `a${paramIndex + 1}`
ParamNameAt(parameterNames, paramIndex) ==
    IF paramIndex < Len(parameterNames)
    THEN parameterNames[paramIndex + 1]
    ELSE <<"a">> \o Decimal(paramIndex + 1)

\* `\\"{${paramName}}\\"`
Placeholder(paramName) ==
    <<Backslash, Quote, "{">> \o paramName \o <<"}", Backslash, Quote>>

\* The while loop of buildProcAssignment followed by the text after the last
\* match: regions are the matches still to come, lastIndex is 0-based.
RECURSIVE ProcTemplate(_, _, _, _, _)
ProcTemplate(stepLine, regions, lastIndex, paramIndex, parameterNames) ==
    IF regions = <<>>
    THEN escapeForCSharpInterpolatedStringLiteralText(
             Slice(stepLine, lastIndex, Len(stepLine)))
    ELSE LET matchIndex == Head(regions)[1] - 1
             before == Slice(stepLine, lastIndex, matchIndex)
         IN escapeForCSharpInterpolatedStringLiteralText(before)
               \o Placeholder(ParamNameAt(parameterNames, paramIndex))
               \o ProcTemplate(stepLine, Tail(regions), Head(regions)[2],
                               paramIndex + 1, parameterNames)

buildProcAssignment(stepLine, parameterNames) ==
    IF Len(parameterNames) = 0
    THEN PlainOpen \o escapeForCSharpStringLiteral(stepLine) \o LiteralClose
    ELSE InterpolatedOpen
            \o ProcTemplate(stepLine, QuotedRegions(stepLine), 0, 0, parameterNames)
            \o LiteralClose

Indent == <<" ", " ", " ", " ", " ">>

CRLF == <<"\r", "\n">>

PublicBool == <<"p", "u", "b", "l", "i", "c", " ", "b", "o", "o", "l", " ">>

StringType == <<"s", "t", "r", "i", "n", "g", " ">>

CommaSpace == <<",", " ">>

BodyOpen == <<" ", " ", " ", " ", " ", "{", "\r", "\n", " ", " ", " ", " ", " ", " ", " ", " ", " ">>

BodyRest == <<"\r", "\n", " ", " ", " ", " ", " ", "\r", "\n", " ", " ", " ", " ", " ", " ", " ", " ", " ", "i", "f", " ", "(", "C", "o", "m", "b", "i", "n", "e", "d", "S", "t", "e", "p", "s", ".", "O", "u", "t", "p", "u", "t", "P", "r", "o", "c", "(", "p", "r", "o", "c", ")", ")", "\r", "\n", " ", " ", " ", " ", " ", " ", " ", " ", " ", "{", "\r", "\n", " ", " ", " ", " ", " ", " ", " ", " ", " ", " ", " ", " ", " ", "r", "e", "t", "u", "r", "n", " ", "f", "a", "l", "s", "e", ";", "\r", "\n", " ", " ", "/", "/", " ", "m", "a", "k", "e", " ", "m", "e", " ", "t", "r", "u", "e", "!", " ", " ", " ", " ", " ", " ", " ", " ", " ", " ", " ", " ", " ", "/", "/", "r", "e", "t", "u", "r", "n", " ", "t", "r", "u", "e", ";", "\r", "\n", " ", " ", " ", " ", "}", "\r", "\n", " ", " ", " ", " ", "C", "o", "m", "b", "i", "n", "e", "d", "S", "t", "e", "p", "s", ".", "F", "a", "i", "l", "u", "r", "e", "(", "p", "r", "o", "c", ")", ";", "\r", "\n", " ", " ", " ", " ", "r", "e", "t", "u", "r", "n", " ", "f", "a", "l", "s", "e", ";", "\r", "\n", "}">>

\* parameterNames.map((n) => `string ${n}`).join(', ')
RECURSIVE ParameterList(_)
ParameterList(parameterNames) ==
    IF parameterNames = <<>> THEN <<>>
    ELSE StringType \o Head(parameterNames)
            \o (IF Tail(parameterNames) = <<>> THEN <<>> ELSE CommaSpace)
            \o ParameterList(Tail(parameterNames))

\* The local "signature" of generateCSharpMethod.
Signature(stepLine) ==
    LET methodName == toCSharpMethodName(stepLine)
        quotedValues == getQuotedStringLiterals(stepLine)
        parameterNames == getParameterNames(Len(quotedValues))
    IN PublicBool \o methodName \o <<"(">> \o ParameterList(parameterNames) \o <<")">>

\* The local "bindingAttribute" of generateCSharpMethod: <<>> is undefined,
\* <<text>> is the attribute.
BindingAttribute(stepLine) ==
    LET parsed == parseStepKeyword(stepLine)
    IN IF parsed.ok
       THEN <<generateAtfBindingAttribute(parsed.keyword, parsed.remainder)>>
       ELSE <<>>

\* The assignment generateCSharpMethod places in the body.
ProcAssignment(stepLine) ==
    buildProcAssignment(stepLine,
                        getParameterNames(Len(getQuotedStringLiterals(stepLine))))

generateCSharpMethod(stepLine) ==
    LET bindingAttribute == BindingAttribute(stepLine)
    IN Indent
          \o (IF bindingAttribute # <<>> THEN bindingAttribute[1] \o CRLF ELSE <<>>)
          \o Indent \o Signature(stepLine) \o CRLF
          \o BodyOpen \o ProcAssignment(stepLine)
          \o BodyRest

----------------------------------------------------------------------------
(* The command 'lineContextMenu.useSelectedLine' registered by activate.    *)

NoEditor == [present |-> FALSE]

NoFrame == [write |-> <<>>, show |-> "none", message |-> <<>>]

getLineOrSingleLineSelectionText(ed) ==
    IF ~ed.selection.isEmpty
    THEN IF ed.selection.startLine # ed.selection.endLine
         THEN [ok |-> FALSE, error |-> SelectionError]
         ELSE [ok |-> TRUE, text |-> ed.selectedText]
    ELSE [ok |-> TRUE, text |-> ed.activeLineText]

MaxTail == 4

RECURSIVE SeqsUpTo(_, _)
SeqsUpTo(chars, n) ==
    IF n = 0 THEN {<<>>}
    ELSE LET shorter == SeqsUpTo(chars, n - 1)
         IN shorter \cup {Append(s, c) : s \in shorter, c \in chars}

ExampleLine == <<"W", "h", "e", "n", " ", "M", "e", "s", "s", "a", "g", "e", " ", "\"", "H", "e", "l", "l", "o", "\"", " ", "i", "s", " ", "d", "i", "s", "p", "l", "a", "y", "e", "d">>

\* The texts of a line of the document: a line holds no "\n" and no "\r".
EditorHeads == {<<>>, Given, <<"t", "H", "E", "N">>, <<"A", "n", "d">>}

EditorLines ==
    {lead \o head \o tail :
        lead \in {<<>>, <<" ">>},
        head \in EditorHeads,
        tail \in SeqsUpTo({" ", Quote, "a", LS}, MaxTail)} \cup {ExampleLine}

\* The editors the command can find active: an empty selection on a line, a
\* selection within the line, a selection that spans two lines.
Editors ==
    {[present |-> TRUE,
      selection |-> [isEmpty |-> TRUE, startLine |-> 0, endLine |-> 0],
      selectedText |-> <<>>, activeLineText |-> t] : t \in EditorLines}
    \cup
    {[present |-> TRUE,
      selection |-> [isEmpty |-> FALSE, startLine |-> 0, endLine |-> 0],
      selectedText |-> t, activeLineText |-> t] : t \in EditorLines \ {<<>>}}
    \cup
    {[present |-> TRUE,
      selection |-> [isEmpty |-> FALSE, startLine |-> 0, endLine |-> 1],
      selectedText |-> t \o <<"\n">> \o t, activeLineText |-> t] : t \in {Given, ExampleLine}}

NoCall == [fn |-> "none"]

HostIdle ==
    /\ pc = "idle"
    /\ editor = NoEditor
    /\ frame = NoFrame
    /\ clipboard = <<>>
    /\ log = <<>>

Init ==
    /\ HostIdle
    /\ call = NoCall
    /\ ret = <<>>

\* The user opens an editor and places the cursor or a selection in it.
ActiveEditorChanges ==
    /\ pc = "idle"
    /\ editor = NoEditor
    /\ editor' \in Editors
    /\ UNCHANGED <<pc, frame, clipboard, log, call, ret>>

Event(op, text) == [op |-> op, text |-> text]

\* The handler with no active editor: it shows the error and returns.
CommandNoEditor ==
    /\ pc = "idle"
    /\ ~editor.present
    /\ log' = Append(log, Event("showErrorMessage", NoActiveEditor))
    /\ pc' = "done"
    /\ UNCHANGED <<editor, frame, clipboard, call, ret>>

\* The handler up to its await of clipboard.writeText(lineResult.error).
CommandSelectionError ==
    /\ pc = "idle"
    /\ editor.present
    /\ LET lineResult == getLineOrSingleLineSelectionText(editor)
       IN /\ ~lineResult.ok
          /\ frame' = [write |-> lineResult.error, show |-> "showErrorMessage",
                       message |-> lineResult.error]
    /\ pc' = "awaitWrite"
    /\ UNCHANGED <<editor, clipboard, log, call, ret>>

\* The handler up to its await of clipboard.writeText(validated.error).
CommandValidationError ==
    /\ pc = "idle"
    /\ editor.present
    /\ LET lineResult == getLineOrSingleLineSelectionText(editor)
       IN /\ lineResult.ok
          /\ LET validated == validateStepLine(lineResult.text)
             IN /\ ~validated.ok
                /\ frame' = [write |-> validated.error, show |-> "showErrorMessage",
                             message |-> validated.error]
    /\ pc' = "awaitWrite"
    /\ UNCHANGED <<editor, clipboard, log, call, ret>>

\* The handler up to its await of clipboard.writeText(methodText).
CommandGenerate ==
    /\ pc = "idle"
    /\ editor.present
    /\ LET lineResult == getLineOrSingleLineSelectionText(editor)
       IN /\ lineResult.ok
          /\ LET validated == validateStepLine(lineResult.text)
             IN /\ validated.ok
                /\ frame' = [write |-> generateCSharpMethod(validated.line),
                             show |-> "showInformationMessage",
                             message |-> CopiedMessage]
    /\ pc' = "awaitWrite"
    /\ UNCHANGED <<editor, clipboard, log, call, ret>>

\* The awaited write resolves: the clipboard holds the text and the handler
\* goes on to show its message.
WriteResolves ==
    /\ pc = "awaitWrite"
    /\ clipboard' = frame.write
    /\ log' = log \o <<Event("writeText", frame.write), Event(frame.show, frame.message)>>
    /\ pc' = "done"
    /\ UNCHANGED <<editor, frame, call, ret>>

\* The awaited write rejects: the handler throws and shows nothing.
WriteRejects ==
    /\ pc = "awaitWrite"
    /\ pc' = "rejected"
    /\ UNCHANGED <<editor, frame, clipboard, log, call, ret>>

Next ==
    \/ ActiveEditorChanges
    \/ CommandNoEditor
    \/ CommandSelectionError
    \/ CommandValidationError
    \/ CommandGenerate
    \/ WriteResolves
    \/ WriteRejects

Spec == Init /\ [][Next]_vars

----------------------------------------------------------------------------
(* Direct calls of the functions of the pipeline, on inputs that need not   *)
(* come from an editor and need not be validated.                           *)

MaxRawTail == 3

RawHeads ==
    {<<>>, Given, <<"W", "H", "E", "N">>, <<"t", "h", "e", "n">>, <<"A", "n", "d">>,
     <<"o", "R">>, <<"g", "i", "v">>, <<"x">>}

RawLines ==
    {lead \o head \o tail :
        lead \in {<<>>, <<" ">>},
        head \in RawHeads,
        tail \in SeqsUpTo({" ", "a", "1", "_", "-", "\n"}, MaxRawTail)}

InitValidate ==
    /\ HostIdle
    /\ call \in {[fn |-> f, rawLine |-> s] :
                    f \in {"validateStepLine", "parseStepKeyword"}, s \in RawLines}
    /\ ret = <<>>

ReturnValidateStepLine ==
    /\ call.fn = "validateStepLine"
    /\ ret = <<>>
    /\ ret' = <<validateStepLine(call.rawLine)>>
    /\ UNCHANGED <<hostVars, call>>

ReturnParseStepKeyword ==
    /\ call.fn = "parseStepKeyword"
    /\ ret = <<>>
    /\ ret' = <<parseStepKeyword(call.rawLine)>>
    /\ UNCHANGED <<hostVars, call>>

NextValidate == ReturnValidateStepLine \/ ReturnParseStepKeyword

SpecValidate == InitValidate /\ [][NextValidate]_vars

MaxCount == 280

InitNames ==
    /\ HostIdle
    /\ call \in {[fn |-> "getParameterNames", count |-> n] : n \in 0..MaxCount}
    /\ ret = <<>>

ReturnGetParameterNames ==
    /\ call.fn = "getParameterNames"
    /\ ret = <<>>
    /\ ret' = <<getParameterNames(call.count)>>
    /\ UNCHANGED <<hostVars, call>>

NextNames == ReturnGetParameterNames

SpecNames == InitNames /\ [][NextNames]_vars

MaxProcLen == 5

MaxProcNames == 2

InitProc ==
    /\ HostIdle
    /\ call \in {[fn |-> "buildProcAssignment", stepLine |-> s,
                  parameterNames |-> getParameterNames(k)] :
                    s \in SeqsUpTo({Backslash, Quote, "{", "}", "a"}, MaxProcLen),
                    k \in 0..MaxProcNames}
    /\ ret = <<>>

ReturnBuildProcAssignment ==
    /\ call.fn = "buildProcAssignment"
    /\ ret = <<>>
    /\ ret' = <<buildProcAssignment(call.stepLine, call.parameterNames)>>
    /\ UNCHANGED <<hostVars, call>>

NextProc == ReturnBuildProcAssignment

SpecProc == InitProc /\ [][NextProc]_vars

MaxPairTail == 4

\* Lines that validateStepLine accepts and returns as they are.
PairLines ==
    {s \in {Given \o tail : tail \in SeqsUpTo({" ", Quote, "a"}, MaxPairTail)} :
        validateStepLine(s) = [ok |-> TRUE, line |-> s]}

\* What the user may type between the quotes of a quoted region.
Contents == {<<>>, <<"b">>, <<"b", " ", "c">>, <<LS>>}

\* stepLine with the text between the quotes of region k replaced.
SetContent(stepLine, k, content) ==
    LET region == QuotedRegions(stepLine)[k]
    IN SubSeq(stepLine, 1, region[1]) \o content
          \o SubSeq(stepLine, region[2], Len(stepLine))

\* Two calls of generateCSharpMethod, on a line and on a copy of it.
InitPair ==
    /\ HostIdle
    /\ call \in {[fn |-> "generateCSharpMethod", stepLine |-> s, otherLine |-> s] :
                    s \in PairLines}
    /\ ret = <<>>

\* Before the calls, the copy gets other text inside one of its quoted regions.
EditQuotedContent ==
    /\ call.fn = "generateCSharpMethod"
    /\ ret = <<>>
    /\ \E k \in DOMAIN QuotedRegions(call.otherLine), content \in Contents :
          call' = [call EXCEPT !.otherLine = SetContent(call.otherLine, k, content)]
    /\ UNCHANGED <<hostVars, ret>>

ReturnGenerateBoth ==
    /\ call.fn = "generateCSharpMethod"
    /\ ret = <<>>
    /\ ret' = << <<generateCSharpMethod(call.stepLine),
                    generateCSharpMethod(call.otherLine)>> >>
    /\ UNCHANGED <<hostVars, call>>

NextPair == EditQuotedContent \/ ReturnGenerateBoth

SpecPair == InitPair /\ [][NextPair]_vars

----------------------------------------------------------------------------
(* Vocabulary of the properties.                                            *)

Blank(s) == \A i \in DOMAIN s : s[i] \in WhiteSpace

\* The input without its leading and trailing white space.
TrimmedInput(raw) ==
    IF Blank(raw) THEN <<>>
    ELSE LET solid == {i \in DOMAIN raw : raw[i] \notin WhiteSpace}
             first == CHOOSE i \in solid : \A j \in solid : i <= j
             last == CHOOSE i \in solid : \A j \in solid : j <= i
         IN SubSeq(raw, first, last)

\* t begins with the word w, whatever the case of its letters.
BeginsWith(t, w) == Len(t) >= Len(w) /\ ToLowerCase(SubSeq(t, 1, Len(w))) = w

\* The character of t that follows its leading word w, <<>> at the end of t.
Follower(t, w) == IF Len(t) > Len(w) THEN <<t[Len(w) + 1]>> ELSE <<>>

\* t begins with one of the words, and the word ends at a word boundary.
BeginsWithWord(t, words) ==
    \E k \in DOMAIN words :
        /\ BeginsWith(t, words[k])
        /\ \A c \in Range(Follower(t, words[k])) : c \notin WordChars

Failure(error) == [ok |-> FALSE, error |-> error]

ValidateReturned == call.fn = "validateStepLine" /\ ret # <<>>

ParseReturned == call.fn = "parseStepKeyword" /\ ret # <<>>

IsPrefix(p, s) == Len(p) <= Len(s) /\ SubSeq(s, 1, Len(p)) = p

IsSuffix(p, s) == Len(p) <= Len(s) /\ SubSeq(s, Len(s) - Len(p) + 1, Len(s)) = p

\* The text of s between a prefix of length m and a suffix of length n.
Between(s, m, n) == SubSeq(s, m + 1, Len(s) - n)

Malformed == "MALFORMED"

Hole == "HOLE"

\* The text a C# string literal body stands for: a backslash escapes the
\* backslash or the quote that follows it, a bare quote ends the literal.
RECURSIVE DecodePlain(_)
DecodePlain(b) ==
    IF b = <<>> THEN <<>>
    ELSE IF b[1] = Backslash
         THEN IF Len(b) >= 2 /\ b[2] \in {Backslash, Quote}
              THEN <<b[2]>> \o DecodePlain(SubSeq(b, 3, Len(b)))
              ELSE <<Malformed>>
    ELSE IF b[1] = Quote THEN <<Malformed>>
    ELSE <<b[1]>> \o DecodePlain(Tail(b))

\* The same for the body of an interpolated literal: doubled braces stand
\* for a brace, single braces delimit a hole, which decodes to Hole.
RECURSIVE DecodeInterpolated(_)
DecodeInterpolated(b) ==
    IF b = <<>> THEN <<>>
    ELSE IF b[1] = Backslash
         THEN IF Len(b) >= 2 /\ b[2] \in {Backslash, Quote}
              THEN <<b[2]>> \o DecodeInterpolated(SubSeq(b, 3, Len(b)))
              ELSE <<Malformed>>
    ELSE IF b[1] = Quote THEN <<Malformed>>
    ELSE IF b[1] \in {"{", "}"} /\ Len(b) >= 2 /\ b[2] = b[1]
         THEN <<b[1]>> \o DecodeInterpolated(SubSeq(b, 3, Len(b)))
    ELSE IF b[1] = "{" /\ IndexOf(b, "}", 2) > 2
         THEN <<Hole>> \o DecodeInterpolated(SubSeq(b, IndexOf(b, "}", 2) + 1, Len(b)))
    ELSE IF b[1] \in {"{", "}"} THEN <<Malformed>>
    ELSE <<b[1]>> \o DecodeInterpolated(Tail(b))

\* The expressions of the holes of an interpolated literal body, in order.
RECURSIVE HoleNames(_)
HoleNames(b) ==
    IF b = <<>> THEN <<>>
    ELSE IF b[1] = Backslash THEN HoleNames(SubSeq(b, 3, Len(b)))
    ELSE IF b[1] \in {"{", "}"} /\ Len(b) >= 2 /\ b[2] = b[1]
         THEN HoleNames(SubSeq(b, 3, Len(b)))
    ELSE IF b[1] = "{" /\ IndexOf(b, "}", 2) > 2
         THEN <<SubSeq(b, 2, IndexOf(b, "}", 2) - 1)>>
                 \o HoleNames(SubSeq(b, IndexOf(b, "}", 2) + 1, Len(b)))
    ELSE HoleNames(Tail(b))

\* The pieces of s between the occurrences of the character c.
RECURSIVE Split(_, _)
Split(s, c) ==
    LET at == IndexOf(s, c, 1)
    IN IF at = 0 THEN <<s>>
       ELSE <<SubSeq(s, 1, at - 1)>> \o Split(SubSeq(s, at + 1, Len(s)), c)

\* The parameter names of a signature "public bool Name(string a, string b)".
SignatureParameters(signature) ==
    LET open == IndexOf(signature, "(", 1)
        list == SubSeq(signature, open + 1, Len(signature) - 1)
        pieces == IF list = <<>> THEN <<>> ELSE Split(list, ",")
    IN [i \in DOMAIN pieces |->
            LET piece == TrimStart(pieces[i])
            IN IF IsPrefix(StringType, piece)
               THEN SubSeq(piece, Len(StringType) + 1, Len(piece))
               ELSE <<Malformed>>]

\* The number of capture-group tokens in a pattern, counted left to right.
RECURSIVE CountTokens(_)
CountTokens(pattern) ==
    IF Len(pattern) < Len(CaptureToken) THEN 0
    ELSE IF IsPrefix(CaptureToken, pattern)
         THEN 1 + CountTokens(SubSeq(pattern, Len(CaptureToken) + 1, Len(pattern)))
    ELSE CountTokens(Tail(pattern))

\* The pattern body of an attribute [Keyword(@"body")].
PatternBody(attribute) ==
    Between(attribute, IndexOf(attribute, "@", 1) + 1, 3)

\* In a verbatim literal body every quote is half of a doubled pair.
RECURSIVE QuotesDoubled(_)
QuotesDoubled(b) ==
    IF b = <<>> THEN TRUE
    ELSE IF b[1] = Quote
         THEN Len(b) >= 2 /\ b[2] = Quote /\ QuotesDoubled(SubSeq(b, 3, Len(b)))
    ELSE QuotesDoubled(Tail(b))

\* The command validated a line and generated its method.
Generated == pc \in {"awaitWrite", "done", "rejected"} /\ frame.show = "showInformationMessage"

\* The line the command validated.
ValidatedLine == validateStepLine(getLineOrSingleLineSelectionText(editor).text).line

ExampleAttribute == <<"[", "W", "h", "e", "n", "(", "@", "\"", "M", "e", "s", "s", "a", "g", "e", " ", "\"", "\"", "(", "[", "^", "\"", "\"", "]", "*", ")", "\"", "\"", "i", "s", " ", "d", "i", "s", "p", "l", "a", "y", "e", "d", "\"", ")", "]">>

----------------------------------------------------------------------------
(* The properties.                                                          *)

\* C1: validateStepLine returns exactly one of four outcomes, decided on the
\* trimmed input in this order: EmptyLine iff the trimmed input is empty;
\* otherwise WrongConjunction iff it begins, whatever the case and at a word
\* boundary, with "and" or "or"; otherwise MissingKeyword iff it does not so
\* begin with "given", "when" or "then"; otherwise success, carrying the
\* trimmed input with its characters and casing unchanged.
C1_ValidateOutcomes ==
    ValidateReturned =>
        LET t == TrimmedInput(call.rawLine)
            r == ret[1]
            conjunction == BeginsWithWord(t, Conjunctions)
            keyword == BeginsWithWord(t, Keywords)
        IN /\ (r = Failure(EmptyLine)) <=> (t = <<>>)
           /\ t # <<>> => ((r = Failure(WrongConjunction)) <=> conjunction)
           /\ (t # <<>> /\ ~conjunction) => ((r = Failure(MissingKeyword)) <=> ~keyword)
           /\ (t # <<>> /\ ~conjunction /\ keyword) => r = [ok |-> TRUE, line |-> t]

\* A padded line in capitals was accepted and came back trimmed, still in capitals.
C1_Witness ==
    /\ ValidateReturned
    /\ ret[1].ok
    /\ ret[1].line # call.rawLine
    /\ IsPrefix(<<"W", "H", "E", "N", " ">>, ret[1].line)

\* The leading words of t that are followed by a character of the class.
LeadingWordsFollowedBy(t, words, class) ==
    {k \in DOMAIN words :
        BeginsWith(t, words[k]) /\ \E c \in Range(Follower(t, words[k])) : c \in class}

AllCharacters == WordChars \cup WhiteSpace \cup {"-", Quote, Backslash, "{", "}"}

\* C2 as stated: a leading keyword or conjunction that is immediately
\* followed by any character that is not white space (a letter, a digit, an
\* underscore, punctuation) is not matched: the line is neither accepted as
\* starting with that keyword nor rejected with WrongConjunction.
C2_MatchedOnlyBeforeWhiteSpace ==
    ValidateReturned =>
        LET t == TrimmedInput(call.rawLine)
        IN /\ LeadingWordsFollowedBy(t, Keywords, AllCharacters \ WhiteSpace) # {}
                 => ~ret[1].ok
           /\ LeadingWordsFollowedBy(t, Conjunctions, AllCharacters \ WhiteSpace) # {}
                 => ret[1] # Failure(WrongConjunction)

\* C2 as amended: a leading keyword or conjunction that is immediately
\* followed by a letter, a digit or an underscore is not matched (the line
\* is neither accepted as starting with that keyword nor rejected with
\* WrongConjunction); followed by any other character, punctuation
\* included, it is matched.
C2_MatchedOnlyAtWordBoundary ==
    ValidateReturned =>
        LET t == TrimmedInput(call.rawLine)
        IN /\ LeadingWordsFollowedBy(t, Keywords, WordChars) # {} => ~ret[1].ok
           /\ LeadingWordsFollowedBy(t, Conjunctions, WordChars) # {}
                 => ret[1] # Failure(WrongConjunction)
           /\ LeadingWordsFollowedBy(t, Keywords, AllCharacters \ WordChars) # {}
                 => ret[1].ok
           /\ LeadingWordsFollowedBy(t, Conjunctions, AllCharacters \ WordChars) # {}
                 => ret[1] = Failure(WrongConjunction)

\* "then_..." was refused for its missing keyword.
C2_Witness ==
    /\ ValidateReturned
    /\ IsPrefix(<<"t", "h", "e", "n", "_">>, TrimmedInput(call.rawLine))
    /\ ret[1] = Failure(MissingKeyword)

\* C3: for every line validateStepLine accepts, with n the number of quoted
\* regions, the signature has exactly n string parameters, the binding
\* attribute holds exactly n capture-group tokens, the proc assignment holds
\* exactly n interpolation holes, the k-th hole names the k-th parameter of
\* the signature, and the fallback name is never used.
C3_CountAndOrderPreserved ==
    Generated =>
        LET line == ValidatedLine
            n == Len(getQuotedStringLiterals(line))
            parameters == SignatureParameters(Signature(line))
            attribute == BindingAttribute(line)
            tokens == IF attribute = <<>> THEN 0
                      ELSE CountTokens(PatternBody(attribute[1]))
            assignment == ProcAssignment(line)
            holes == IF n = 0 THEN <<>>
                     ELSE HoleNames(Between(assignment, Len(InterpolatedOpen),
                                            Len(LiteralClose)))
        IN /\ Len(parameters) = n
           /\ tokens = n
           /\ Len(holes) = n
           /\ holes = parameters
           /\ parameters = getParameterNames(n)
           /\ frame.write = generateCSharpMethod(line)

\* C4: getParameterNames(n) returns exactly n names; the name at index i is
\* letter number i mod 26 of a..z followed by the decimal value of
\* floor(i / 26) when that is greater than 0 and by nothing when it is 0;
\* index 26 gives "a1"; the n names are pairwise distinct.
C4_ParameterNames ==
    (call.fn = "getParameterNames" /\ ret # <<>>) =>
        LET names == ret[1]
            Value(ds) == IF Len(ds) = 1 THEN IndexOf(Digits, ds[1], 1) - 1
                         ELSE IF Len(ds) = 2
                              THEN 10 * (IndexOf(Digits, ds[1], 1) - 1)
                                      + IndexOf(Digits, ds[2], 1) - 1
                         ELSE -1
        IN /\ Len(names) = call.count
           /\ \A i \in 0..(call.count - 1) :
                 LET name == names[i + 1]
                 IN /\ name[1] = LowerLetters[(i % 26) + 1]
                    /\ IF i \div 26 = 0 THEN Len(name) = 1
                       ELSE /\ Range(Tail(name)) \subseteq Range(Digits)
                            /\ name[2] # "0"
                            /\ Value(Tail(name)) = i \div 26
           /\ call.count >= 26 => SubSeq(names, 1, 26) = [i \in 1..26 |-> <<LowerLetters[i]>>]
           /\ call.count >= 27 => names[27] = <<"a", "1">>
           /\ Cardinality(Range(names)) = call.count

\* More than a full alphabet of names was returned, with a two-digit suffix.
C4_Witness ==
    /\ call.fn = "getParameterNames"
    /\ ret # <<>>
    /\ call.count >= 262
    /\ ret[1][27] = <<"a", "1">>
    /\ ret[1][262] = <<"b", "1", "0">>

\* C5: for the line 'When Message "Hello" is displayed' the binding
\* attribute is exactly [When(@"Message ""([^""]*)""is displayed")]: the
\* capture token is immediately followed by 'is displayed'.
C5_ExampleAttribute ==
    (Generated /\ ValidatedLine = ExampleLine) =>
        /\ BindingAttribute(ExampleLine) = <<ExampleAttribute>>
        /\ IsPrefix(Indent \o ExampleAttribute \o CRLF, frame.write)

\* C6: whenever the command has shown an error message, the same text was
\* written to the clipboard before the message was shown.
C6_ErrorCopiedBeforeShown ==
    \A j \in DOMAIN log :
        log[j].op = "showErrorMessage" =>
            \E i \in 1..(j - 1) :
                log[i].op = "writeText" /\ log[i].text = log[j].text

\* C7: buildProcAssignment always escapes, by context.  With no parameter
\* names every backslash and quote of the line is preceded by one escaping
\* backslash and every brace is emitted unchanged; with parameter names
\* every backslash and quote outside the quoted regions (a trailing
\* unmatched quote included) is preceded by one escaping backslash and every
\* brace is doubled, so that the single braces are those of the holes.
C7_EscapingByContext ==
    (call.fn = "buildProcAssignment" /\ ret # <<>>) =>
        LET line == call.stepLine
            out == ret[1]
        IN IF call.parameterNames = <<>>
           THEN /\ IsPrefix(PlainOpen, out)
                /\ IsSuffix(LiteralClose, out)
                /\ DecodePlain(Between(out, Len(PlainOpen), Len(LiteralClose))) = line
           ELSE /\ IsPrefix(InterpolatedOpen, out)
                /\ IsSuffix(LiteralClose, out)
                /\ DecodeInterpolated(Between(out, Len(InterpolatedOpen), Len(LiteralClose)))
                      = ReplaceQuoted(line, <<Quote, Hole, Quote>>)

\* An interpolated assignment of a line with a brace, a quoted region, a
\* backslash and a trailing unmatched quote.
C7_Witness ==
    /\ call.fn = "buildProcAssignment"
    /\ ret # <<>>
    /\ call.parameterNames # <<>>
    /\ call.stepLine = <<"{", Quote, Quote, Backslash, Quote>>
    /\ ret[1] = InterpolatedOpen
                   \o <<"{", "{", Backslash, Quote, "{", "a", "}", Backslash, Quote,
                        Backslash, Backslash, Backslash, Quote>>
                   \o LiteralClose

\* C8: for every string s, parseStepKeyword(s) succeeds iff
\* validateStepLine(s) succeeds; on success the keyword is the leading word
\* normalized to Given, When or Then and the remainder is the text after the
\* keyword without its leading and trailing white space.
C8_ParseSucceedsIffValidated ==
    ParseReturned =>
        LET t == TrimmedInput(call.rawLine)
            r == ret[1]
        IN /\ r.ok <=> validateStepLine(call.rawLine).ok
           /\ r.ok => /\ r.keyword \in {Given, When, Then}
                      /\ BeginsWith(t, ToLowerCase(r.keyword))
                      /\ r.remainder = TrimmedInput(SubSeq(t, Len(r.keyword) + 1, Len(t)))

\* C9: for every line validateStepLine accepts, every double quote of the
\* pattern body inside @"..." belongs to a doubled pair, so that none ends
\* the verbatim literal early.
C9_PatternQuotesDoubled ==
    (Generated /\ BindingAttribute(ValidatedLine) # <<>>) =>
        /\ QuotesDoubled(PatternBody(BindingAttribute(ValidatedLine)[1]))
        /\ IsPrefix(Indent \o BindingAttribute(ValidatedLine)[1] \o CRLF, frame.write)

\* C10: two accepted lines that differ only in the characters between the
\* quotes of their quoted regions get the same generated method.
C10_OutputIndependentOfContents ==
    (/\ call.fn = "generateCSharpMethod"
     /\ ret # <<>>
     /\ validateStepLine(call.stepLine).ok
     /\ validateStepLine(call.otherLine).ok
     /\ ReplaceQuoted(call.stepLine, <<Quote, Quote>>)
           = ReplaceQuoted(call.otherLine, <<Quote, Quote>>))
        => ret[1][1] = ret[1][2]

=============================================================================
